---- MODULE Spec2Model ----
(***************************************************************************)
(* gome-assistant: standby detection and relay shutoff decision logic.     *)
(*                                                                         *)
(* Time is counted in minutes (the range queries use step=60s).  Strings   *)
(* that the program parses or compares are sequences of one-character      *)
(* strings, so that parsing (fmt.Sscanf "%f") and formatting are computed. *)
(* Watts are whole numbers.  A cycle is evaluated at one instant `now`.    *)
(***************************************************************************)
EXTENDS Integers, Sequences, FiniteSets, TLC

VARIABLES
    cfg,      \* Config (main.go:18-29), fixed at start-up
    state,    \* State (main.go:31-34): the cached Shelly IP
    now,      \* wall clock, minutes
    shelly,   \* samples of shelly_watts{device_name=~pattern} held by the backend
    gcode,    \* samples of bambulab_gcode_state held by the backend, per printer
    due,      \* a tick of the ticker is waiting (the first cycle runs at once)
    cyc       \* what the last call of checkAndControl / getStandbyDuration did

vars == <<cfg, state, now, shelly, gcode, due, cyc>>

----------------------------------------------------------------------------
(* Bounds of the model *)

MaxTime == 3           \* the clock stops advancing here
MaxSamples == 3        \* power samples kept by the backend
MaxGcode == 1          \* print-state samples kept per printer (Spec)
MaxGcodeTime == 1      \* the printers report until then (Spec)
MaxPrintTime == 17     \* the clock stops here (SpecPrint)
MaxPrintSamples == 2   \* print-state samples kept in all (SpecPrint)
MaxFaults == 1         \* queries of one cycle that may fail
MaxSeries == 5         \* power samples kept by the backend (SpecStandby)
MaxStandbyTime == 8    \* the clock stops here (SpecStandby)
MaxAddrTime == 3       \* the clock stops here (SpecAddr)
MaxSchedTime == 4      \* the clock stops here (SpecSched)
MaxLateness == 1       \* age of a new reading at the cycle after it (SpecLive)
MaxWire == 2           \* power samples of a response (SpecWire)
WireNow == 8           \* minutes since the epoch at the cycles (SpecWire)

(* Program constants *)

StandbyBuffer == 5         \* lookback := maxDuration + 5*time.Minute
RecentPrintLookback == 15  \* wasPrintingRecently(cfg, 15*time.Minute)
BootExtra == 1             \* Add(-lookback - 1*time.Minute)
LowWatts == 5              \* watts < 5
HighWatts == 10            \* watts > 10
FreshFactor == 2           \* cfg.CheckInterval*2
StatusOK == 200            \* http.StatusOK
DefaultMinWatts == 7       \* MIN_WATTS default
DefaultMaxWatts == 9       \* MAX_WATTS default

----------------------------------------------------------------------------
(* Strings and JSON values *)

Digits == <<"0", "1", "2", "3", "4", "5", "6", "7", "8", "9">>

IsDigit(c) == \E d \in 1..10 : Digits[d] = c

DigitVal(c) == (CHOOSE d \in 1..10 : Digits[d] = c) - 1

RECURSIVE ScanDigits(_, _, _)
ScanDigits(s, i, acc) ==
    IF i > Len(s) \/ ~IsDigit(s[i]) THEN acc
    ELSE ScanDigits(s, i + 1, acc * 10 + DigitVal(s[i]))

\* fmt.Sscanf(valueStr, "%f", &watts): the longest numeric prefix; watts
\* keeps its zero value when the text does not start with a digit
Sscanf(s) == ScanDigits(s, 1, 0)

RECURSIVE FormatFloat(_)
\* the backend's rendering of a whole number as decimal text
FormatFloat(n) ==
    IF n < 10 THEN <<Digits[n + 1]>>
    ELSE FormatFloat(n \div 10) \o <<Digits[(n % 10) + 1]>>

\* []interface{} elements after json decoding: a float64 or a string
JNum(n) == [k |-> "num", n |-> n, s |-> <<>>]
JStr(s) == [k |-> "str", n |-> 0, s |-> s]

\* v.(string): value and ok
AsString(j) == [v |-> IF j.k = "str" THEN j.s ELSE <<>>, ok |-> j.k = "str"]

\* v.(float64): value and ok
AsFloat(j) == [v |-> IF j.k = "num" THEN j.n ELSE 0, ok |-> j.k = "num"]

----------------------------------------------------------------------------
(* The metrics backend: what it answers to the queries the program sends *)

Printers == {"p1", "p2"}

NoMetric == [ip_address |-> <<>>, printer |-> <<>>]

\* one element of VMQueryResult.Data.Result
Series(metric, value, values) == [Metric |-> metric, Value |-> value, Values |-> values]

Envelope(result) == [Status |-> "success", Result |-> result]

\* one [timestamp, value] pair of the response.  A sample the backend renders
\* well is a float64 and a string; a sample with a wire field is sent as that
\* field says (a field missing, of another JSON type, or not a number)
Pair(smp) == IF "wire" \in DOMAIN smp THEN smp.wire ELSE <<JNum(smp.ts), JStr(smp.v)>>

\* shelly_watts{device_name=~"..."}: the newest sample of the device, with
\* the labels of the series
ShellyInstant(store, ip) ==
    IF store = <<>> THEN Envelope(<<>>)
    ELSE Envelope(<<Series([NoMetric EXCEPT !.ip_address = ip],
                           Pair(store[Len(store)]), <<>>)>>)

\* the samples of a store with start <= ts <= end, ascending
InWindow(store, start, end) ==
    SelectSeq(store, LAMBDA smp : smp.ts >= start /\ smp.ts <= end)

\* query_range?query=shelly_watts{...}&start=..&end=..&step=60s
ShellyRange(store, start, end) ==
    LET w == InWindow(store, start, end)
    IN  IF w = <<>> THEN Envelope(<<>>)
        ELSE Envelope(<<Series(NoMetric, <<>>,
                               [i \in 1..Len(w) |-> Pair(w[i])])>>)

SetToSeq(S) ==
    CHOOSE f \in [1..Cardinality(S) -> S] : \A a \in S : \E i \in DOMAIN f : f[i] = a

PrintersWith(g, start, end) == {p \in Printers : InWindow(g[p], start, end) # <<>>}

\* bambulab_gcode_state: the newest state of every printer that reports
GcodeInstant(g, t) ==
    LET ps == SetToSeq(PrintersWith(g, 0, t))
    IN  Envelope([i \in 1..Len(ps) |->
            Series([NoMetric EXCEPT !.printer = <<ps[i]>>],
                   <<JNum(t), JStr(FormatFloat(g[ps[i]][Len(g[ps[i]])].v))>>, <<>>)])

SeqMax(w) == CHOOSE m \in {w[i].v : i \in 1..Len(w)} :
                 \A i \in 1..Len(w) : w[i].v <= m

\* max_over_time(bambulab_gcode_state[lookback]): per printer, the largest
\* state code among its samples of the trailing window
GcodeMaxOverTime(g, t, lookback) ==
    LET ps == SetToSeq(PrintersWith(g, t - lookback, t))
    IN  Envelope([i \in 1..Len(ps) |->
            Series([NoMetric EXCEPT !.printer = <<ps[i]>>],
                   <<JNum(t), JStr(FormatFloat(SeqMax(InWindow(g[ps[i]], t - lookback, t))))>>,
                   <<>>)])

\* what reaches the program for one request: a transport error, or an HTTP
\* status with a body that decodes to an envelope or does not
FaultKinds == {"ok", "transport", "http", "decode", "status"}

HttpResponse(kind, envelope) ==
    [err     |-> kind = "transport",
     code    |-> IF kind = "http" THEN 500 ELSE StatusOK,
     decodes |-> kind # "decode",
     body    |-> IF kind = "status" THEN [Status |-> "error", Result |-> <<>>]
                 ELSE envelope]

----------------------------------------------------------------------------
(* MetricsGateway *)

\* queryVM: any failure is an error; the envelope status must be "success"
queryVM(resp) ==
    IF resp.err THEN [err |-> TRUE, result |-> Envelope(<<>>)]
    ELSE IF resp.code # StatusOK THEN [err |-> TRUE, result |-> Envelope(<<>>)]
    ELSE IF ~resp.decodes THEN [err |-> TRUE, result |-> Envelope(<<>>)]
    ELSE IF resp.body.Status # "success" THEN [err |-> TRUE, result |-> Envelope(<<>>)]
    ELSE [err |-> FALSE, result |-> resp.body]

\* the request code repeated in wasPowerTurnedOnRecently and
\* getStandbyDuration: the envelope status is not looked at
queryRange(resp) ==
    IF resp.err THEN [err |-> TRUE, result |-> Envelope(<<>>)]
    ELSE IF resp.code # StatusOK THEN [err |-> TRUE, result |-> Envelope(<<>>)]
    ELSE IF ~resp.decodes THEN [err |-> TRUE, result |-> Envelope(<<>>)]
    ELSE [err |-> FALSE, result |-> resp.body]

----------------------------------------------------------------------------
(* SignalExtractors *)

PrintingStrs == {<<"1">>, <<"2">>}

\* isBambuPrinting that takes only state 1 (running) for printing
isBambuPrinting_RunningOnly(g, t, fault) ==
    LET q == queryVM(HttpResponse(fault, GcodeInstant(g, t)))
        res == q.result.Result
    IN  IF q.err THEN [v |-> FALSE, err |-> TRUE]
        ELSE [v |-> \E i \in 1..Len(res) :
                        /\ Len(res[i].Value) >= 2
                        /\ AsString(res[i].Value[2]).ok
                        /\ AsString(res[i].Value[2]).v = <<"1">>,
              err |-> FALSE]

isBambuPrinting(g, t, fault) ==
    LET q == queryVM(HttpResponse(fault, GcodeInstant(g, t)))
        res == q.result.Result
    IN  IF q.err THEN [v |-> FALSE, err |-> TRUE]
        ELSE [v |-> \E i \in 1..Len(res) :
                        /\ Len(res[i].Value) >= 2
                        /\ AsString(res[i].Value[2]).ok
                        /\ AsString(res[i].Value[2]).v \in PrintingStrs,
              err |-> FALSE]

\* getShellyBambuWatts that reports 0 W when no device series matches
getShellyBambuWatts_ZeroOnEmpty(store, ip, fault) ==
    LET q == queryVM(HttpResponse(fault, ShellyInstant(store, ip)))
        res == q.result.Result
    IN  IF q.err THEN [watts |-> 0, ip |-> <<>>, err |-> TRUE]
        ELSE IF Len(res) = 0 THEN [watts |-> 0, ip |-> <<>>, err |-> FALSE]
        ELSE IF Len(res[1].Value) >= 2 /\ AsString(res[1].Value[2]).ok
             THEN [watts |-> Sscanf(AsString(res[1].Value[2]).v),
                   ip |-> res[1].Metric.ip_address, err |-> FALSE]
        ELSE [watts |-> 0, ip |-> <<>>, err |-> TRUE]

getShellyBambuWatts(store, ip, fault) ==
    LET q == queryVM(HttpResponse(fault, ShellyInstant(store, ip)))
        res == q.result.Result
    IN  IF q.err THEN [watts |-> 0, ip |-> <<>>, err |-> TRUE]
        ELSE IF Len(res) = 0 THEN [watts |-> 0, ip |-> <<>>, err |-> TRUE]
        ELSE IF Len(res[1].Value) >= 2 /\ AsString(res[1].Value[2]).ok
             THEN [watts |-> Sscanf(AsString(res[1].Value[2]).v),
                   ip |-> res[1].Metric.ip_address, err |-> FALSE]
        ELSE [watts |-> 0, ip |-> <<>>, err |-> TRUE]

\* hasRecentShellyMetrics without the age test: any sample counts as recent
hasRecentShellyMetrics_NoAge(store, ip, within, t, fault) ==
    LET q == queryVM(HttpResponse(fault, ShellyInstant(store, ip)))
        res == q.result.Result
    IN  IF q.err THEN [v |-> FALSE, err |-> TRUE]
        ELSE IF Len(res) = 0 THEN [v |-> FALSE, err |-> FALSE]
        ELSE [v |-> TRUE, err |-> FALSE]

\* hasRecentShellyMetrics with age < within
hasRecentShellyMetrics_Strict(store, ip, within, t, fault) ==
    LET q == queryVM(HttpResponse(fault, ShellyInstant(store, ip)))
        res == q.result.Result
    IN  IF q.err THEN [v |-> FALSE, err |-> TRUE]
        ELSE IF Len(res) = 0 THEN [v |-> FALSE, err |-> FALSE]
        ELSE IF Len(res[1].Value) >= 2 /\ AsFloat(res[1].Value[1]).ok
             THEN [v |-> t - AsFloat(res[1].Value[1]).v < within, err |-> FALSE]
        ELSE [v |-> FALSE, err |-> FALSE]

hasRecentShellyMetrics(store, ip, within, t, fault) ==
    LET q == queryVM(HttpResponse(fault, ShellyInstant(store, ip)))
        res == q.result.Result
    IN  IF q.err THEN [v |-> FALSE, err |-> TRUE]
        ELSE IF Len(res) = 0 THEN [v |-> FALSE, err |-> FALSE]
        ELSE IF Len(res[1].Value) >= 2 /\ AsFloat(res[1].Value[1]).ok
             THEN [v |-> t - AsFloat(res[1].Value[1]).v <= within, err |-> FALSE]
        ELSE [v |-> FALSE, err |-> FALSE]

\* wasPrintingRecently that looks at the first result only
wasPrintingRecently_FirstOnly(g, lookback, t, fault) ==
    LET q == queryVM(HttpResponse(fault, GcodeMaxOverTime(g, t, lookback)))
        res == q.result.Result
    IN  IF q.err THEN [v |-> FALSE, err |-> TRUE]
        ELSE [v |-> /\ Len(res) > 0
                    /\ Len(res[1].Value) >= 2
                    /\ AsString(res[1].Value[2]).ok
                    /\ AsString(res[1].Value[2]).v \in PrintingStrs,
              err |-> FALSE]

wasPrintingRecently(g, lookback, t, fault) ==
    LET q == queryVM(HttpResponse(fault, GcodeMaxOverTime(g, t, lookback)))
        res == q.result.Result
    IN  IF q.err THEN [v |-> FALSE, err |-> TRUE]
        ELSE [v |-> \E i \in 1..Len(res) :
                        /\ Len(res[i].Value) >= 2
                        /\ AsString(res[i].Value[2]).ok
                        /\ AsString(res[i].Value[2]).v \in PrintingStrs,
              err |-> FALSE]

----------------------------------------------------------------------------
(* StandbyWindowAnalyzer *)

RECURSIVE ScanTransition(_, _, _)
\* the forward loop over values: previousLow is set by a reading below 5 W,
\* a later reading above 10 W is the transition
ScanTransition(values, i, previousLow) ==
    IF i > Len(values) THEN FALSE
    ELSE IF Len(values[i]) >= 2 /\ AsString(values[i][2]).ok
         THEN LET watts == Sscanf(AsString(values[i][2]).v)
              IN  IF watts < LowWatts THEN ScanTransition(values, i + 1, TRUE)
                  ELSE IF previousLow /\ watts > HighWatts THEN TRUE
                  ELSE ScanTransition(values, i + 1, previousLow)
    ELSE ScanTransition(values, i + 1, previousLow)

wasPowerTurnedOnRecently(store, lookback, t, fault) ==
    LET q == queryRange(HttpResponse(fault,
                 ShellyRange(store, t - lookback - BootExtra, t)))
        res == q.result.Result
    IN  IF q.err THEN [v |-> FALSE, err |-> TRUE]
        ELSE IF Len(res) = 0 THEN [v |-> FALSE, err |-> FALSE]
        ELSE IF Len(res[1].Values) > 2
             THEN [v |-> ScanTransition(res[1].Values, 1, FALSE), err |-> FALSE]
        ELSE [v |-> FALSE, err |-> FALSE]

\* the band test with the bounds included
InStandbyRange_Inclusive(watts, minWatts, maxWatts) == watts >= minWatts /\ watts <= maxWatts

\* watts > minWatts && watts < maxWatts
InStandbyRange(watts, minWatts, maxWatts) == watts > minWatts /\ watts < maxWatts

NoStart == [set |-> FALSE, t |-> 0]

RECURSIVE ScanStandby_NoBreak(_, _, _, _, _)
\* the loop without the break: a sample out of range is passed over
ScanStandby_NoBreak(values, i, minWatts, maxWatts, standbyStart) ==
    IF i < 1 THEN standbyStart
    ELSE IF Len(values[i]) >= 2
         THEN LET timestampFloat == AsFloat(values[i][1]).v
                  watts == Sscanf(AsString(values[i][2]).v)
              IN  IF InStandbyRange(watts, minWatts, maxWatts)
                  THEN ScanStandby_NoBreak(values, i - 1, minWatts, maxWatts,
                                           [set |-> TRUE, t |-> timestampFloat])
                  ELSE ScanStandby_NoBreak(values, i - 1, minWatts, maxWatts, standbyStart)
    ELSE ScanStandby_NoBreak(values, i - 1, minWatts, maxWatts, standbyStart)

RECURSIVE ScanStandby_KeepNewest(_, _, _, _, _)
\* the loop that keeps the first timestamp it finds, that of the newest sample
ScanStandby_KeepNewest(values, i, minWatts, maxWatts, standbyStart) ==
    IF i < 1 THEN standbyStart
    ELSE IF Len(values[i]) >= 2
         THEN LET timestampFloat == AsFloat(values[i][1]).v
                  watts == Sscanf(AsString(values[i][2]).v)
              IN  IF InStandbyRange(watts, minWatts, maxWatts)
                  THEN ScanStandby_KeepNewest(values, i - 1, minWatts, maxWatts,
                           IF standbyStart.set THEN standbyStart
                           ELSE [set |-> TRUE, t |-> timestampFloat])
                  ELSE standbyStart
    ELSE ScanStandby_KeepNewest(values, i - 1, minWatts, maxWatts, standbyStart)

RECURSIVE ScanStandby(_, _, _, _, _)
\* the loop from the newest sample to the oldest: standbyStart follows the
\* samples in range, the first sample out of range ends the loop
ScanStandby(values, i, minWatts, maxWatts, standbyStart) ==
    IF i < 1 THEN standbyStart
    ELSE IF Len(values[i]) >= 2
         THEN LET timestampFloat == AsFloat(values[i][1]).v
                  watts == Sscanf(AsString(values[i][2]).v)
              IN  IF InStandbyRange(watts, minWatts, maxWatts)
                  THEN ScanStandby(values, i - 1, minWatts, maxWatts,
                                   [set |-> TRUE, t |-> timestampFloat])
                  ELSE standbyStart
    ELSE ScanStandby(values, i - 1, minWatts, maxWatts, standbyStart)

\* getStandbyDuration that returns the span of the run, newest sample minus
\* oldest, instead of the time since its start
getStandbyDuration_Span(store, minWatts, maxWatts, maxDuration, t, fault) ==
    LET lookback == maxDuration + StandbyBuffer
        q == queryRange(HttpResponse(fault, ShellyRange(store, t - lookback, t)))
        res == q.result.Result
    IN  IF q.err THEN [v |-> 0, err |-> TRUE]
        ELSE IF Len(res) = 0 THEN [v |-> 0, err |-> FALSE]
        ELSE LET standbyStart ==
                     ScanStandby(res[1].Values, Len(res[1].Values),
                                 minWatts, maxWatts, NoStart)
             IN  IF Len(res[1].Values) > 0 /\ standbyStart.set
                 THEN [v |-> AsFloat(res[1].Values[Len(res[1].Values)][1]).v
                             - standbyStart.t,
                       err |-> FALSE]
                 ELSE [v |-> 0, err |-> FALSE]

getStandbyDuration(store, minWatts, maxWatts, maxDuration, t, fault) ==
    LET lookback == maxDuration + StandbyBuffer
        q == queryRange(HttpResponse(fault, ShellyRange(store, t - lookback, t)))
        res == q.result.Result
    IN  IF q.err THEN [v |-> 0, err |-> TRUE]
        ELSE IF Len(res) = 0 THEN [v |-> 0, err |-> FALSE]
        ELSE LET standbyStart ==
                     ScanStandby(res[1].Values, Len(res[1].Values),
                                 minWatts, maxWatts, NoStart)
             IN  IF Len(res[1].Values) > 0 /\ standbyStart.set
                 THEN [v |-> t - standbyStart.t, err |-> FALSE]
                 ELSE [v |-> 0, err |-> FALSE]

----------------------------------------------------------------------------
(* RelayController *)

RelayResults == {"ok", "transport", "http"}

\* setShellyRelayOff that does not look at cfg.DryRun
setShellyRelayOff_IgnoreDryRun(c, shellyIP, result) ==
    [sent |-> TRUE, err |-> result # "ok"]

\* setShellyRelayOff: what was done with the relay and whether it failed
setShellyRelayOff(c, shellyIP, result) ==
    IF c.DryRun THEN [sent |-> FALSE, err |-> FALSE]
    ELSE [sent |-> TRUE, err |-> result # "ok"]

----------------------------------------------------------------------------
(* Inputs of the model *)

PowerStrs == {FormatFloat(3), FormatFloat(DefaultMinWatts), FormatFloat(8), FormatFloat(12)}

GcodeStates == {2, 3}

MainPrinters == {"p1"}

\* the ip_address label of the power series: absent, or one of two addresses
Labels == {<<>>, <<"1", "0", ".", "0", ".", "0", ".", "5">>,
           <<"1", "0", ".", "0", ".", "0", ".", "6">>}

Configs ==
    [VictoriaMetricsURL : {"vm"}, ShellyDevicePattern : {".*[Bb]ambu.*"},
     CheckInterval : {1}, MinWatts : {DefaultMinWatts}, MaxWatts : {DefaultMaxWatts},
     StandbyDuration : {1}, BootGracePeriod : {1}, DryRun : BOOLEAN]

----------------------------------------------------------------------------
(* DecisionEngine *)

Queries == {"watts", "fresh", "boot", "printing", "recent", "standby"}

Outcomes == {"SkipOffline", "SkipBootGrace", "SkipPrinting", "SkipRecentPrint",
             "SkipOutOfBand", "SkipStillCounting", "ShutOff"}

NoRelay == [called |-> FALSE, sent |-> FALSE, err |-> FALSE, addr |-> <<>>]

Idle ==
    [kind |-> "idle", outcome |-> "none", err |-> FALSE, queries |-> <<>>,
     faults |-> [q \in Queries |-> "none"], label |-> <<>>, watts |-> 0,
     dur |-> 0, relay |-> NoRelay, before |-> <<>>, at |-> 0, values |-> <<>>,
     prev |-> "none"]

\* the answers a cycle may still get when n of its queries have failed
Allowed(n) == IF n < MaxFaults THEN FaultKinds ELSE {"ok"}

Failed(ks) == Cardinality({i \in 1..Len(ks) : ks[i] # "ok"})

QueryOrder == <<"watts", "fresh", "boot", "printing", "recent", "standby">>

\* checkAndControl returns: the State it leaves and the record of the cycle.
\* ks are the answers to the queries sent so far, in the order of QueryOrder;
\* before is the address cached when the cycle started, prev the outcome of
\* the last cycle of the previous process when this is the first cycle of a
\* restarted one
Return(st, outcome, err, ks, label, watts, dur, relay) ==
    /\ state' = st
    /\ cyc' = [Idle EXCEPT !.kind = "cycle", !.outcome = outcome, !.err = err,
                  !.queries = SubSeq(QueryOrder, 1, Len(ks)),
                  !.faults = [q \in Queries |->
                      IF \E i \in 1..Len(ks) : QueryOrder[i] = q
                      THEN ks[CHOOSE i \in 1..Len(ks) : QueryOrder[i] = q]
                      ELSE "none"],
                  !.label = label, !.watts = watts, !.dur = dur, !.relay = relay,
                  !.before = state.ShellyIP,
                  !.prev = cyc.outcome]
    /\ UNCHANGED <<cfg, now, shelly, gcode>>

\* the last branch with the relay called whether or not an address is cached
controlRelay_NoAddrCheck(st1, ks, label, watts, standbyDuration) ==
    IF standbyDuration >= cfg.StandbyDuration
    THEN \E relayResult \in (IF cfg.DryRun THEN {"ok"} ELSE RelayResults) :
             LET r == setShellyRelayOff(cfg, st1.ShellyIP, relayResult)
             IN  Return(st1, "ShutOff", FALSE, ks, label, watts, standbyDuration,
                        [called |-> TRUE, sent |-> r.sent, err |-> r.err,
                         addr |-> st1.ShellyIP])
    ELSE Return(st1, "SkipStillCounting", FALSE, ks, label, watts, standbyDuration, NoRelay)

\* the last branch with the relay sent to the address cached before this cycle
controlRelay_StaleAddress(st1, ks, label, watts, standbyDuration) ==
    IF standbyDuration >= cfg.StandbyDuration
    THEN IF state.ShellyIP = <<>>
         THEN Return(st1, "ShutOff", FALSE, ks, label, watts, standbyDuration, NoRelay)
         ELSE \E relayResult \in (IF cfg.DryRun THEN {"ok"} ELSE RelayResults) :
                  LET r == setShellyRelayOff(cfg, state.ShellyIP, relayResult)
                  IN  Return(st1, "ShutOff", FALSE, ks, label, watts, standbyDuration,
                             [called |-> TRUE, sent |-> r.sent, err |-> r.err,
                              addr |-> state.ShellyIP])
    ELSE Return(st1, "SkipStillCounting", FALSE, ks, label, watts, standbyDuration, NoRelay)

\* the last branch of checkAndControl: the standby duration against the
\* threshold, and the relay
controlRelay(st1, ks, label, watts, standbyDuration) ==
    IF standbyDuration >= cfg.StandbyDuration
    THEN IF st1.ShellyIP = <<>>
         THEN Return(st1, "ShutOff", FALSE, ks, label, watts, standbyDuration, NoRelay)
         ELSE \E relayResult \in (IF cfg.DryRun THEN {"ok"} ELSE RelayResults) :
                  LET r == setShellyRelayOff(cfg, st1.ShellyIP, relayResult)
                  IN  Return(st1, "ShutOff", FALSE, ks, label, watts, standbyDuration,
                             [called |-> TRUE, sent |-> r.sent, err |-> r.err,
                              addr |-> st1.ShellyIP])
    ELSE Return(st1, "SkipStillCounting", FALSE, ks, label, watts, standbyDuration, NoRelay)

\* the cache overwritten by whatever the power query carried, an empty
\* label included
cacheShellyIP_Always(st, shellyIP) == [st EXCEPT !.ShellyIP = shellyIP]

\* if shellyIP != "" { state.ShellyIP = shellyIP }
cacheShellyIP(st, shellyIP) ==
    IF shellyIP # <<>> THEN [st EXCEPT !.ShellyIP = shellyIP] ELSE st

\* checkAndControl(cfg, state), one evaluation cycle at time now.  label is
\* the ip_address label of the power series, k1..k6 are the answers to the
\* six queries, drawn when the query is sent
checkAndControl ==
    \E label \in Labels, k1 \in Allowed(0) :
    LET p == getShellyBambuWatts(shelly, label, k1)
        st1 == cacheShellyIP(state, p.ip)
        inStandbyRange == p.watts >= cfg.MinWatts /\ p.watts <= cfg.MaxWatts
    IN
    IF p.err THEN Return(state, "SkipOffline", TRUE, <<k1>>, <<>>, 0, 0, NoRelay)
    ELSE \E k2 \in Allowed(Failed(<<k1>>)) :
    LET hasRecentMetrics ==
            hasRecentShellyMetrics(shelly, label, cfg.CheckInterval * FreshFactor, now, k2)
    IN
    IF hasRecentMetrics.err \/ ~hasRecentMetrics.v
    THEN Return(st1, "SkipOffline", hasRecentMetrics.err, <<k1, k2>>, p.ip, p.watts,
                0, NoRelay)
    ELSE \E k3 \in Allowed(Failed(<<k1, k2>>)) :
    LET powerOnRecently == wasPowerTurnedOnRecently(shelly, cfg.BootGracePeriod, now, k3)
    IN
    IF powerOnRecently.err \/ powerOnRecently.v
    THEN Return(st1, "SkipBootGrace", powerOnRecently.err, <<k1, k2, k3>>, p.ip, p.watts,
                0, NoRelay)
    ELSE \E k4 \in Allowed(Failed(<<k1, k2, k3>>)) :
    LET isPrinting == isBambuPrinting(gcode, now, k4)
    IN
    IF isPrinting.err \/ isPrinting.v
    THEN Return(st1, "SkipPrinting", isPrinting.err, <<k1, k2, k3, k4>>, p.ip, p.watts,
                0, NoRelay)
    ELSE \E k5 \in Allowed(Failed(<<k1, k2, k3, k4>>)) :
    LET wasPrinting == wasPrintingRecently(gcode, RecentPrintLookback, now, k5)
    IN
    IF wasPrinting.err \/ wasPrinting.v
    THEN Return(st1, "SkipRecentPrint", wasPrinting.err, <<k1, k2, k3, k4, k5>>, p.ip,
                p.watts, 0, NoRelay)
    ELSE IF ~inStandbyRange
    THEN Return(st1, "SkipOutOfBand", FALSE, <<k1, k2, k3, k4, k5>>, p.ip, p.watts,
                0, NoRelay)
    ELSE \E k6 \in Allowed(Failed(<<k1, k2, k3, k4, k5>>)) :
    LET standbyDuration ==
            getStandbyDuration(shelly, cfg.MinWatts, cfg.MaxWatts, cfg.StandbyDuration,
                               now, k6)
    IN
    IF standbyDuration.err
    THEN Return(st1, "SkipStillCounting", TRUE, <<k1, k2, k3, k4, k5, k6>>, p.ip,
                p.watts, 0, NoRelay)
    ELSE controlRelay(st1, <<k1, k2, k3, k4, k5, k6>>, p.ip, p.watts, standbyDuration.v)

----------------------------------------------------------------------------
(* The process and its environment *)

Init ==
    /\ cfg \in Configs
    /\ state = [ShellyIP |-> <<>>]
    /\ now = 0
    /\ shelly = <<>>
    /\ gcode = [p \in Printers |-> <<>>]
    /\ due = TRUE
    /\ cyc = Idle

\* a check interval passes and the ticker fires (main.go:84, 90)
Tick ==
    /\ now + cfg.CheckInterval <= MaxTime
    /\ now' = now + cfg.CheckInterval
    /\ due' = TRUE
    /\ cyc' = Idle
    /\ UNCHANGED <<cfg, state, shelly, gcode>>

\* the Shelly exporter stores a power reading
ShellyExport ==
    /\ Len(shelly) < MaxSamples
    /\ IF shelly = <<>> THEN TRUE ELSE shelly[Len(shelly)].ts < now
    /\ \E v \in PowerStrs : shelly' = Append(shelly, [ts |-> now, v |-> v])
    /\ cyc' = Idle
    /\ UNCHANGED <<cfg, state, now, gcode, due>>

\* the Bambu exporter stores the print state of a printer
BambuExport ==
    /\ \E p \in MainPrinters, s \in GcodeStates :
          /\ Len(gcode[p]) < MaxGcode
          /\ now <= MaxGcodeTime
          /\ IF gcode[p] = <<>> THEN TRUE ELSE gcode[p][Len(gcode[p])].ts < now
          /\ gcode' = [gcode EXCEPT ![p] = Append(@, [ts |-> now, v |-> s])]
    /\ cyc' = Idle
    /\ UNCHANGED <<cfg, state, now, shelly, due>>

\* main: checkAndControl once at start and once per tick; the cycle takes the
\* waiting tick and runs in no time
Cycle == due /\ due' = FALSE /\ checkAndControl

Next == Tick \/ ShellyExport \/ BambuExport \/ Cycle

Spec == Init /\ [][Next]_vars

----------------------------------------------------------------------------
(* The print history, with the plug steadily reporting: SpecPrint *)

AllGcodeStates == 0..4

PrintPowerStrs == {FormatFloat(8), FormatFloat(12)}

\* minutes between two cycles that are looked at
PrintSteps == {RecentPrintLookback \div 2, RecentPrintLookback \div 2 + 1}

\* the two newest readings of a plug that reports v every minute
Steady(v, t) == <<[ts |-> t - 1, v |-> v], [ts |-> t, v |-> v]>>

InitPrint ==
    /\ cfg \in {c \in Configs : ~c.DryRun}
    /\ state = [ShellyIP |-> <<>>]
    /\ now = 1
    /\ shelly \in {Steady(v, 1) : v \in PrintPowerStrs}
    /\ gcode = [p \in Printers |-> <<>>]
    /\ due = TRUE
    /\ cyc = Idle

\* some minutes pass (the cycles in between are not looked at), the ticker fires
TickPrint ==
    \E d \in PrintSteps, v \in PrintPowerStrs :
        /\ now + d <= MaxPrintTime
        /\ now' = now + d
        /\ shelly' = Steady(v, now + d)
        /\ due' = TRUE
        /\ cyc' = Idle
        /\ UNCHANGED <<cfg, state, gcode>>

RECURSIVE SumLen(_, _)
SumLen(g, ps) ==
    IF ps = {} THEN 0
    ELSE LET p == CHOOSE x \in ps : TRUE IN Len(g[p]) + SumLen(g, ps \ {p})

\* the Bambu exporter stores the print state of a printer
BambuExportPrint ==
    /\ SumLen(gcode, Printers) < MaxPrintSamples
    /\ \E p \in Printers, s \in AllGcodeStates :
          /\ IF gcode[p] = <<>> THEN TRUE ELSE gcode[p][Len(gcode[p])].ts < now
          /\ gcode' = [gcode EXCEPT ![p] = Append(@, [ts |-> now, v |-> s])]
    /\ cyc' = Idle
    /\ UNCHANGED <<cfg, state, now, shelly, due>>

NextPrint == TickPrint \/ BambuExportPrint \/ Cycle

SpecPrint == InitPrint /\ [][NextPrint]_vars

----------------------------------------------------------------------------
(* getStandbyDuration over a growing power series: SpecStandby *)

StandbyStrs ==
    {FormatFloat(DefaultMinWatts), FormatFloat(8), FormatFloat(DefaultMaxWatts),
     FormatFloat(60)}

\* minutes between two calls
StandbySteps == {1, 2}

InitStandby ==
    /\ cfg \in {c \in Configs : ~c.DryRun}
    /\ state = [ShellyIP |-> <<>>]
    /\ now = 0
    /\ shelly = <<>>
    /\ gcode = [p \in Printers |-> <<>>]
    /\ due = FALSE
    /\ cyc = Idle

\* getStandbyDuration(cfg, cfg.MinWatts, cfg.MaxWatts, cfg.StandbyDuration)
\* called at time t on the series store; the record keeps the samples of the
\* queried window
StandbyCall(store, t) ==
    [Idle EXCEPT !.kind = "standby",
                 !.dur = getStandbyDuration(store, cfg.MinWatts, cfg.MaxWatts,
                                            cfg.StandbyDuration, t, "ok").v,
                 !.at = t,
                 !.values = InWindow(store, t - cfg.StandbyDuration - StandbyBuffer, t)]

\* time passes, the plug reports a reading, getStandbyDuration is called
StandbyReading ==
    \E d \in StandbySteps, v \in StandbyStrs :
        /\ now + d <= MaxStandbyTime
        /\ Len(shelly) < MaxSeries
        /\ now' = now + d
        /\ shelly' = Append(shelly, [ts |-> now + d, v |-> v])
        /\ cyc' = StandbyCall(shelly', now')
        /\ UNCHANGED <<cfg, state, gcode, due>>

\* time passes without a reading, getStandbyDuration is called
StandbyGap ==
    \E d \in StandbySteps :
        /\ now + d <= MaxStandbyTime
        /\ now' = now + d
        /\ cyc' = StandbyCall(shelly, now')
        /\ UNCHANGED <<cfg, state, shelly, gcode, due>>

NextStandby == StandbyReading \/ StandbyGap

SpecStandby == InitStandby /\ [][NextStandby]_vars

----------------------------------------------------------------------------
(* The cached address over cycles and restarts of the process: SpecAddr *)

AddrPowerStrs == {FormatFloat(8), FormatFloat(12)}

\* the device series at time t: none matches the pattern, or the plug
\* reports steadily
AddrStores(t) == {<<>>} \cup {Steady(v, t) : v \in AddrPowerStrs}

InitAddr ==
    /\ cfg \in Configs
    /\ state = [ShellyIP |-> <<>>]
    /\ now = 1
    /\ shelly \in AddrStores(1)
    /\ gcode = [p \in Printers |-> <<>>]
    /\ due = TRUE
    /\ cyc = Idle

\* a check interval passes and the ticker fires
TickAddr ==
    /\ now + cfg.CheckInterval <= MaxAddrTime
    /\ now' = now + cfg.CheckInterval
    /\ shelly' \in AddrStores(now')
    /\ due' = TRUE
    /\ cyc' = Idle
    /\ UNCHANGED <<cfg, state, gcode>>

\* the process is started again right after a cycle: state := &State{} and
\* checkAndControl runs at once.  The record of the last cycle is kept, the
\* backend is where it was
Restart ==
    /\ ~due /\ cyc.kind = "cycle"
    /\ state' = [ShellyIP |-> <<>>]
    /\ due' = TRUE
    /\ UNCHANGED <<cfg, now, shelly, gcode, cyc>>

NextAddr == TickAddr \/ Restart \/ Cycle

SpecAddr == InitAddr /\ [][NextAddr]_vars

----------------------------------------------------------------------------
(* The ticker and cycles that take time: SpecSched *)

\* main has made the ticker and is about to call checkAndControl (main.go:88)
AtStart == [Idle EXCEPT !.kind = "start"]

\* main is inside checkAndControl
Running == [Idle EXCEPT !.kind = "running"]

InitSched ==
    /\ cfg \in Configs
    /\ state = [ShellyIP |-> <<>>]
    /\ now = 0
    /\ shelly \in AddrStores(0)
    /\ gcode = [p \in Printers |-> <<>>]
    /\ due = FALSE
    /\ cyc = AtStart

\* a check interval passes and the ticker fires: ticker.C holds one tick, a
\* tick that finds it full is dropped
TickSched ==
    /\ cyc.kind # "start"
    /\ now + cfg.CheckInterval <= MaxSchedTime
    /\ now' = now + cfg.CheckInterval
    /\ shelly' \in AddrStores(now')
    /\ due' = TRUE
    /\ UNCHANGED <<cfg, state, gcode, cyc>>

\* CycleBegin that leaves the tick in ticker.C
CycleBegin_KeepTick ==
    /\ \/ cyc.kind = "start"
       \/ cyc.kind = "cycle" /\ due
    /\ cyc' = Running
    /\ UNCHANGED <<cfg, state, now, shelly, gcode, due>>

\* main calls checkAndControl: at once after start (main.go:88), and then
\* whenever it receives a tick from ticker.C (main.go:90-91)
CycleBegin ==
    /\ \/ cyc.kind = "start"
       \/ cyc.kind = "cycle" /\ due
    /\ cyc' = Running
    /\ due' = IF cyc.kind = "start" THEN due ELSE FALSE
    /\ UNCHANGED <<cfg, state, now, shelly, gcode>>

\* checkAndControl returns
CycleEnd == cyc.kind = "running" /\ checkAndControl /\ UNCHANGED due

NextSched == TickSched \/ CycleBegin \/ CycleEnd

\* main is not suspended for ever: when it can call checkAndControl it does
SpecSched == InitSched /\ [][NextSched]_vars /\ WF_vars(CycleBegin)

----------------------------------------------------------------------------
(* Cycles without end: SpecLive *)

(* Time is kept relative here: the clock reads the same at every cycle and
   the timestamps of the samples move back as time passes; a sample older
   than every window the program looks at is forgotten.  The program only
   ever computes now minus a timestamp. *)

\* the default-like configuration, and one with a long check interval
LiveConfigs ==
    {c \in Configs : ~c.DryRun} \cup
    [VictoriaMetricsURL : {"vm"}, ShellyDevicePattern : {".*[Bb]ambu.*"},
     CheckInterval : {7}, MinWatts : {DefaultMinWatts}, MaxWatts : {DefaultMaxWatts},
     StandbyDuration : {2}, BootGracePeriod : {1}, DryRun : {FALSE}]

Max2(a, b) == IF a >= b THEN a ELSE b

\* the longest time the program looks back with configuration c
Horizon(c) ==
    Max2(FreshFactor * c.CheckInterval,
         Max2(c.StandbyDuration + StandbyBuffer, c.BootGracePeriod + BootExtra))

LivePowerStrs == {FormatFloat(8), FormatFloat(12)}

\* the store d minutes later
Shift(store, d) ==
    LET kept == SelectSeq(store, LAMBDA smp : smp.ts - d >= 0)
    IN  [i \in 1..Len(kept) |-> [ts |-> kept[i].ts - d, v |-> kept[i].v]]

\* what the plug reports during one check interval of d minutes: nothing, or
\* one reading, taken now or a minute ago
NewSamples(d, t) ==
    {<<>>} \cup {<<[ts |-> t - a, v |-> v]>> :
                     a \in 0..(IF d > MaxLateness THEN MaxLateness ELSE d - 1),
                     v \in LivePowerStrs}

InitLive ==
    /\ cfg \in LiveConfigs
    /\ state = [ShellyIP |-> <<>>]
    /\ now = Horizon(cfg)
    /\ shelly \in NewSamples(cfg.CheckInterval, now)
    /\ gcode = [p \in Printers |-> <<>>]
    /\ due = TRUE
    /\ cyc = Idle

\* a check interval passes and the ticker fires
TickLive ==
    /\ ~due
    /\ \E new \in NewSamples(cfg.CheckInterval, now) :
           shelly' = Shift(shelly, cfg.CheckInterval) \o new
    /\ due' = TRUE
    /\ cyc' = Idle
    /\ UNCHANGED <<cfg, state, now, gcode>>

NextLive == TickLive \/ Cycle

\* main takes the tick that waits in ticker.C (main.go:90); in NextLive this is
\* the first thing Cycle does
TakeTick == due /\ due' = FALSE

\* time passes, and main is not suspended for ever
SpecLive == InitLive /\ [][NextLive]_vars /\ WF_vars(TickLive) /\ WF_due(TakeTick)

----------------------------------------------------------------------------
(* Responses with fields that are missing or malformed: SpecWire *)

\* the value texts of the power series: three numbers, text that is no
\* number, and a number followed by text
WireTexts ==
    {FormatFloat(3), FormatFloat(8), FormatFloat(12), <<"x">>, <<"8", "x">>}

\* the pairs the backend may send for the sample of minute t: a float64 and
\* a text, a pair whose timestamp is not a number, a pair without its value
WireSamples(t) ==
    {[ts |-> t, v |-> s, wire |-> <<JNum(t), JStr(s)>>] : s \in WireTexts}
    \cup {[ts |-> t, v |-> FormatFloat(8),
           wire |-> <<JStr(<<"x">>), JStr(FormatFloat(8))>>],
          [ts |-> t, v |-> <<>>, wire |-> <<JNum(t)>>]}

\* a plug that was switched on a minute ago
PoweredOn(t) ==
    <<[ts |-> t - 2, v |-> FormatFloat(3)], [ts |-> t - 1, v |-> FormatFloat(3)],
      [ts |-> t, v |-> FormatFloat(12)]>>

\* the device series at time t: no series, the plug just switched on, or up
\* to MaxWire samples, one a minute, the newest of minute t
WireStores(t) ==
    {<<>>, PoweredOn(t)} \cup
    UNION {{s \in [1..n -> UNION {WireSamples(u) : u \in (t - n + 1)..t}] :
               \A i \in 1..n : s[i].ts = t - n + i} : n \in 1..MaxWire}

\* the print states at time t: no printer reports, a printer is paused, a
\* printer has just gone from paused to idle
WireGcode(t) ==
    {[p \in Printers |-> <<>>],
     [p \in Printers |-> IF p = "p1" THEN <<[ts |-> t, v |-> 2]>> ELSE <<>>],
     [p \in Printers |-> IF p = "p1" THEN <<[ts |-> t - 1, v |-> 2], [ts |-> t, v |-> 0]>>
                         ELSE <<>>]}

\* the band may start at 0 W (-min-watts 0)
WireConfigs ==
    {[c EXCEPT !.MinWatts = m] : c \in {d \in Configs : ~d.DryRun}, m \in {0, DefaultMinWatts}}

InitWire ==
    /\ cfg \in WireConfigs
    /\ state = [ShellyIP |-> <<>>]
    /\ now = WireNow
    /\ shelly \in WireStores(now)
    /\ gcode \in WireGcode(now)
    /\ due = TRUE
    /\ cyc = Idle

\* main exits when a cycle has reported an error: no tick is taken after it
TickWire_ExitOnError ==
    /\ ~due
    /\ ~cyc.err
    /\ due' = TRUE
    /\ cyc' = Idle
    /\ UNCHANGED <<cfg, state, now, shelly, gcode>>

\* a check interval passes and the ticker fires; times are counted from the
\* cycle, so the clock reads the same, and the backend answers the next cycle
\* as it answered this one
TickWire ==
    /\ ~due
    /\ due' = TRUE
    /\ cyc' = Idle
    /\ UNCHANGED <<cfg, state, now, shelly, gcode>>

NextWire == TickWire \/ Cycle

\* the ticker fires for ever, and main takes every tick
SpecWire == InitWire /\ [][NextWire]_vars /\ WF_vars(TickWire) /\ WF_due(TakeTick)

----------------------------------------------------------------------------
(* What the backend holds, read without the program's code *)

\* the number a stored power text stands for, if it is a number
IsNumber(str) == \E n \in 0..99 : FormatFloat(n) = str

ValueOf(str) == CHOOSE n \in 0..99 : FormatFloat(n) = str

Newest(store) == store[Len(store)]

MetricsFresh ==
    /\ shelly # <<>>
    /\ now - Newest(shelly).ts <= FreshFactor * cfg.CheckInterval

BootWindow == InWindow(shelly, now - cfg.BootGracePeriod - BootExtra, now)

\* what wasPowerTurnedOnRecently reports on a range series of more than two
\* samples: a reading below 5 W followed by a reading above 10 W
TransitionIn(w) ==
    /\ Len(w) > 2
    /\ \E i, j \in 1..Len(w) :
          /\ i < j
          /\ IsNumber(w[i].v) /\ ValueOf(w[i].v) < LowWatts
          /\ IsNumber(w[j].v) /\ ValueOf(w[j].v) > HighWatts

PrintingCodes == {1, 2}

PrinterPrinting ==
    \E p \in Printers : gcode[p] # <<>> /\ Newest(gcode[p]).v \in PrintingCodes

RecentWindow(p) == InWindow(gcode[p], now - RecentPrintLookback, now)

\* the largest state code of some printer over the trailing window is 1 or 2
MaxCodePrinting ==
    \E p \in Printers :
        /\ RecentWindow(p) # <<>>
        /\ \E i \in 1..Len(RecentWindow(p)) :
              /\ RecentWindow(p)[i].v \in PrintingCodes
              /\ \A j \in 1..Len(RecentWindow(p)) :
                     RecentWindow(p)[j].v <= RecentWindow(p)[i].v

\* some printer reported Running or Paused inside the trailing window
PrintedInWindow ==
    \E p \in Printers : \E i \in 1..Len(RecentWindow(p)) :
        RecentWindow(p)[i].v \in PrintingCodes

IsCycle == cyc.kind = "cycle"

Answered(q) == cyc.faults[q] = "ok"

QueryFailed(q) == cyc.faults[q] \in FaultKinds \ {"ok"}

----------------------------------------------------------------------------
(* Claims on the evaluation cycle, under Spec *)

C2_FailedQueryNeverShutsOff ==
    (IsCycle /\ \E q \in Queries : QueryFailed(q)) =>
        (cyc.outcome # "ShutOff" /\ ~cyc.relay.called)

\* the cycle went through the four safety gates
PassedGates ==
    IsCycle /\ cyc.outcome \in {"SkipOutOfBand", "SkipStillCounting", "ShutOff"}

Issued(q) == \E i \in 1..Len(cyc.queries) : cyc.queries[i] = q

\* C6: in a cycle that passes the four safety gates, current watts exactly
\* equal to minWatts or to maxWatts are not in band: the cycle ends at
\* SkipOutOfBand, the standby duration is not queried, no relay command.
C6_BoundaryWattsOutOfBand ==
    (PassedGates /\ cyc.watts \in {cfg.MinWatts, cfg.MaxWatts}) =>
        (cyc.outcome = "SkipOutOfBand" /\ ~Issued("standby") /\ ~cyc.relay.called)

----------------------------------------------------------------------------
(* Claims on the print gates, under SpecPrint *)

\* C8: if some printer reported Running (1) or Paused (2) at a sample of the
\* trailing 15-minute window, whatever it reported afterwards, the
\* was-printing-recently check is true: the cycle that reaches it ends at
\* SkipRecentPrint and issues no relay command.
C8_FinishedPrintCaught ==
    (IsCycle /\ Answered("recent") /\ PrintedInWindow) =>
        (cyc.outcome = "SkipRecentPrint" /\ ~cyc.relay.called)

\* C9: wasPrintingWithin(15 min) is true exactly when, for some printer, the
\* largest state code of its samples inside the window is 1 or 2; samples
\* outside the window and the order inside it do not matter.  A cycle whose
\* was-printing-recently query is answered ends at SkipRecentPrint exactly then.
C9_RecentIffWindowMax ==
    /\ wasPrintingRecently(gcode, RecentPrintLookback, now, "ok").v <=> MaxCodePrinting
    /\ (IsCycle /\ Answered("recent")) =>
           ((cyc.outcome = "SkipRecentPrint") <=> MaxCodePrinting)

\* C9 witness: a cycle stopped by the was-printing-recently check
C9_Witness ==
    IsCycle /\ Answered("recent") /\ cyc.outcome = "SkipRecentPrint" /\ MaxCodePrinting

PrinterPaused == \E p \in Printers : gcode[p] # <<>> /\ Newest(gcode[p]).v = 2

\* C10: isPrinting is true exactly when some printer's reported state is
\* Running (1) or Paused (2); a cycle whose is-printing query reports a paused
\* printer stops at SkipPrinting, sends no later query and no relay command,
\* whatever the watts and the power history; no cycle commands the relay
\* while a printer reports Paused.
C10_PausedStopsCycle ==
    /\ isBambuPrinting(gcode, now, "ok").v <=> PrinterPrinting
    /\ (IsCycle /\ Answered("printing")) =>
           ((cyc.outcome = "SkipPrinting") <=> PrinterPrinting)
    /\ (IsCycle /\ Answered("printing") /\ PrinterPaused) =>
           /\ cyc.outcome = "SkipPrinting"
           /\ ~Issued("recent") /\ ~Issued("standby")
    /\ (IsCycle /\ PrinterPaused) => ~cyc.relay.called

\* C10 witness: a cycle stopped at SkipPrinting by a paused printer while the
\* plug draws standby power and another printer reports a finished print
C10_Witness ==
    /\ IsCycle /\ cyc.outcome = "SkipPrinting" /\ ~cyc.err
    /\ cyc.watts > cfg.MinWatts /\ cyc.watts < cfg.MaxWatts
    /\ \E p, q \in Printers :
          /\ gcode[p] # <<>> /\ Newest(gcode[p]).v = 2
          /\ gcode[q] # <<>> /\ Newest(gcode[q]).v = 3

----------------------------------------------------------------------------
(* Claims on getStandbyDuration, under SpecStandby *)

IsStandby == cyc.kind = "standby"

\* a reading strictly inside the configured band
InBand(v) == IsNumber(v) /\ ValueOf(v) > cfg.MinWatts /\ ValueOf(v) < cfg.MaxWatts

\* the number of newest samples of r that are all in band
RunLen(r) ==
    CHOOSE k \in 0..Len(r) :
        /\ \A i \in (Len(r) - k + 1)..Len(r) : InBand(r[i].v)
        /\ k = Len(r) \/ ~InBand(r[Len(r) - k].v)

\* r was sampled every s minutes
FixedStep(r, s) == \A i \in 1..(Len(r) - 1) : r[i + 1].ts - r[i].ts = s

\* C3: the duration is the time since the earliest sample of the maximal run
\* of in-band samples that ends the series of the queried window, and zero
\* when the window holds no sample or its newest sample is out of band;
\* whatever the spacing of the samples.
C3_DurationSinceRunStart ==
    IsStandby =>
        LET r == cyc.values
            k == RunLen(r)
        IN  cyc.dur = IF k = 0 THEN 0 ELSE cyc.at - r[Len(r) - k + 1].ts

\* an irregularly spaced window with a sample missing before the call, whose
\* run of two or more samples follows an out-of-band sample
C3_Witness ==
    /\ IsStandby /\ Len(cyc.values) >= 4
    /\ RunLen(cyc.values) >= 2 /\ RunLen(cyc.values) < Len(cyc.values)
    /\ ~ \E s \in StandbySteps : FixedStep(cyc.values, s)
    /\ cyc.values[Len(cyc.values)].ts < cyc.at
    /\ cyc.dur = cyc.at - cyc.values[Len(cyc.values) - RunLen(cyc.values) + 1].ts

\* the series of C4: a fixed step, the newest sample at the time of the call,
\* k >= 1 trailing samples in band after an out-of-band sample
C4_Series(s) ==
    /\ IsStandby /\ cyc.values # <<>>
    /\ FixedStep(cyc.values, s)
    /\ cyc.values[Len(cyc.values)].ts = cyc.at
    /\ RunLen(cyc.values) >= 1 /\ RunLen(cyc.values) < Len(cyc.values)

\* C4 as stated: on such a series the duration is k x s, one step for each
\* in-band sample.
C4_OneStepPerSample ==
    \A s \in StandbySteps :
        C4_Series(s) => cyc.dur = RunLen(cyc.values) * s

\* C4 amended: on such a series the duration is (k - 1) x s, the time between
\* the oldest and the newest sample of the run.
C4_OneStepPerGap ==
    \A s \in StandbySteps :
        C4_Series(s) => cyc.dur = (RunLen(cyc.values) - 1) * s

\* [60, 60, 8, 8, 8] at one-minute steps: two minutes
C4_Witness ==
    /\ C4_Series(1) /\ Len(cyc.values) = 5
    /\ [i \in 1..5 |-> ValueOf(cyc.values[i].v)] = <<60, 60, 8, 8, 8>>
    /\ cyc.dur = 2

\* a reading exactly equal to minWatts or to maxWatts
OnBoundary(v) == IsNumber(v) /\ ValueOf(v) \in {cfg.MinWatts, cfg.MaxWatts}

\* C5: a sample equal to minWatts or maxWatts is not in band: the run never
\* extends to it or past it, and when it is the newest sample the duration
\* is zero.
C5_BoundaryBreaksRun ==
    IsStandby =>
        \A i \in 1..Len(cyc.values) :
            OnBoundary(cyc.values[i].v) =>
                IF i = Len(cyc.values) THEN cyc.dur = 0
                ELSE cyc.dur <= cyc.at - cyc.values[i + 1].ts

\* a run that stops at a sample equal to minWatts and another at maxWatts
C5_Witness ==
    /\ IsStandby /\ cyc.dur > 0
    /\ \E i \in 1..(Len(cyc.values) - 1) :
          /\ OnBoundary(cyc.values[i].v)
          /\ \A j \in (i + 1)..Len(cyc.values) : InBand(cyc.values[j].v)
          /\ cyc.dur = cyc.at - cyc.values[i + 1].ts
    /\ \E i, j \in 1..Len(cyc.values) :
          /\ ValueOf(cyc.values[i].v) = cfg.MinWatts
          /\ ValueOf(cyc.values[j].v) = cfg.MaxWatts

\* the series of the next call is the series of this call with in-band
\* samples appended
GrowsInBand ==
    /\ Len(cyc'.values) >= Len(cyc.values)
    /\ SubSeq(cyc'.values, 1, Len(cyc.values)) = cyc.values
    /\ \A i \in (Len(cyc.values) + 1)..Len(cyc'.values) : InBand(cyc'.values[i].v)

NewestOutOfBand(r) == r # <<>> /\ ~InBand(r[Len(r)].v)

C7_WitnessZero ==
    /\ IsStandby /\ Len(cyc.values) >= 3
    /\ NewestOutOfBand(cyc.values)
    /\ InBand(cyc.values[Len(cyc.values) - 1].v)
    /\ cyc.dur = 0

----------------------------------------------------------------------------
(* Claims on the freshness gate, the power query and the relay, under Spec *)

\* the age of the newest power sample
Age == now - Newest(shelly).ts

FreshWithin == FreshFactor * cfg.CheckInterval

\* C11: hasRecentShellyMetrics answers false, without an error, when the
\* power series is empty; false when the newest sample is older than within;
\* true when its age is at most within.  A cycle that gets the answer false
\* ends there, as SkipOffline, with no later query and no relay command.
C11_FreshIffAgeWithin ==
    /\ \A label \in Labels :
          hasRecentShellyMetrics(shelly, label, FreshWithin, now, "ok") =
              [v |-> shelly # <<>> /\ Age <= FreshWithin, err |-> FALSE]
    /\ (IsCycle /\ Answered("fresh")) =>
          ((cyc.outcome = "SkipOffline") <=> ~(Age <= FreshWithin))
    /\ (IsCycle /\ Answered("fresh") /\ ~(Age <= FreshWithin)) =>
          /\ ~cyc.err /\ ~cyc.relay.called
          /\ cyc.queries = <<"watts", "fresh">>

\* a cycle stopped by a sample one minute too old
C11_Witness ==
    /\ IsCycle /\ Answered("fresh")
    /\ Age = FreshWithin + 1
    /\ cyc.outcome = "SkipOffline" /\ ~cyc.err

\* a cycle let through by a sample exactly within minutes old
C11_WitnessAtLimit ==
    /\ IsCycle /\ Answered("fresh")
    /\ Age = FreshWithin
    /\ cyc.outcome # "SkipOffline"

----------------------------------------------------------------------------
(* Claims on the power query and the cached address, under SpecAddr *)

\* the record is that of a cycle that has just returned (after Restart it is
\* the record of a cycle of the previous process)
Returned == IsCycle /\ ~due

\* C12: when no device series matches the power query, getShellyBambuWatts
\* returns an error; the cycle stops there: the power query is the only query
\* it sends, it makes no relay command and it leaves the cached address as it
\* was.
C12_NoDeviceStopsCycle ==
    /\ shelly = <<>> =>
          \A label \in Labels :
              getShellyBambuWatts(shelly, label, "ok") =
                  [watts |-> 0, ip |-> <<>>, err |-> TRUE]
    /\ (Returned /\ Answered("watts") /\ shelly = <<>>) =>
          /\ cyc.outcome = "SkipOffline" /\ cyc.err
          /\ cyc.queries = <<"watts">>
          /\ ~cyc.relay.called
          /\ state.ShellyIP = cyc.before

\* the device series is gone in a cycle that has an address cached
C12_Witness ==
    /\ Returned /\ Answered("watts") /\ shelly = <<>>
    /\ cyc.before # <<>> /\ state.ShellyIP = cyc.before
    /\ cyc.outcome = "SkipOffline"

----------------------------------------------------------------------------
(* The gates, read from what the backend holds *)

NoQueryFailed == \A q \in Queries : ~QueryFailed(q)

StandbyWindow == InWindow(shelly, now - cfg.StandbyDuration - StandbyBuffer, now)

\* the time since the start of the run of in-band samples that ends the
\* standby window
WorldStandby ==
    LET k == RunLen(StandbyWindow)
    IN  IF k = 0 THEN 0
        ELSE now - StandbyWindow[Len(StandbyWindow) - k + 1].ts

\* the first five checks pass: fresh metrics, no power-on transition, not
\* printing now or recently, the current watts inside the band
GatesPass ==
    /\ shelly # <<>> /\ MetricsFresh
    /\ ~TransitionIn(BootWindow)
    /\ ~PrinterPrinting /\ ~MaxCodePrinting
    /\ InBand(Newest(shelly).v)

----------------------------------------------------------------------------
(* Claims on the relay, under Spec *)

\* C13: in dry-run mode no cycle sends anything to the relay; setShellyRelayOff
\* returns success; and a cycle whose queries all succeed, whose gates pass and
\* whose standby time has reached the threshold still ends as ShutOff, with
\* the (unsent) relay command reported successful when an address is cached.
C13_DryRunSendsNothing ==
    cfg.DryRun =>
        /\ ~cyc.relay.sent /\ ~cyc.relay.err
        /\ \A ip \in Labels, r \in RelayResults :
               setShellyRelayOff(cfg, ip, r) = [sent |-> FALSE, err |-> FALSE]
        /\ (IsCycle /\ NoQueryFailed /\ GatesPass
                /\ WorldStandby >= cfg.StandbyDuration) =>
               /\ cyc.outcome = "ShutOff"
               /\ state.ShellyIP # <<>> => cyc.relay.called

\* a dry-run cycle that ends as ShutOff and calls the relay controller
C13_Witness ==
    /\ cfg.DryRun /\ IsCycle /\ cyc.outcome = "ShutOff"
    /\ NoQueryFailed /\ GatesPass /\ WorldStandby >= cfg.StandbyDuration
    /\ cyc.relay.called /\ ~cyc.relay.sent /\ ~cyc.relay.err

----------------------------------------------------------------------------
(* Claims on the cached address, under SpecAddr *)

\* this step is a cycle
CycleStep == due /\ ~due' /\ cyc'.kind = "cycle"

\* C14: every cycle leaves in the cache the address label of its power query
\* if that carried one, and the address cached before otherwise; a cycle that
\* reaches ShutOff sends the relay command to the cached address, and when no
\* address is cached it makes no relay call and returns, the ticker going on
\* to the next cycle.
C14_RelayToLatestAddress ==
    [][ /\ CycleStep =>
              /\ state'.ShellyIP =
                     IF cyc'.label # <<>> THEN cyc'.label ELSE state.ShellyIP
              /\ cyc'.outcome = "ShutOff" =>
                     IF state'.ShellyIP # <<>>
                     THEN cyc'.relay.called /\ cyc'.relay.addr = state'.ShellyIP
                     ELSE cyc'.relay = NoRelay /\ ~cyc'.err
        /\ (Returned /\ cyc.outcome = "ShutOff" /\ ~cyc.relay.called
                /\ now + cfg.CheckInterval <= MaxAddrTime) => ENABLED TickAddr
      ]_vars

\* ShutOff sent to an address learned in an earlier cycle, the power query of
\* this cycle carrying none
C14_Witness ==
    /\ Returned /\ cyc.outcome = "ShutOff" /\ cyc.label = <<>>
    /\ cyc.relay.called /\ cyc.relay.addr = cyc.before /\ cyc.before # <<>>

\* ShutOff with no address ever cached
C14_WitnessNoAddress ==
    /\ Returned /\ cyc.outcome = "ShutOff"
    /\ state.ShellyIP = <<>> /\ ~cyc.relay.called

\* ShutOff sent to the newer of two addresses
C14_WitnessNewer ==
    /\ Returned /\ cyc.outcome = "ShutOff" /\ cyc.relay.called
    /\ cyc.before # <<>> /\ cyc.label # <<>> /\ cyc.label # cyc.before
    /\ cyc.relay.addr = cyc.label

\* C20: a cycle run by a freshly started process, at the same instant and with
\* the same query responses as the last cycle of the previous process, the
\* power query carrying the address label, has the same outcome, the same
\* standby duration and the same relay command; nothing but the cached
\* address is read from the state, and a cycle changes nothing else.
C20_RestartChangesNothing ==
    [][ CycleStep =>
            /\ (/\ IsCycle
                /\ cyc'.faults = cyc.faults /\ cyc'.label = cyc.label
                /\ cyc'.label # <<>>) =>
                   /\ cyc'.outcome = cyc.outcome /\ cyc'.err = cyc.err
                   /\ cyc'.queries = cyc.queries
                   /\ cyc'.watts = cyc.watts /\ cyc'.dur = cyc.dur
                   /\ cyc'.relay.called = cyc.relay.called
                   /\ cyc'.relay.addr = cyc.relay.addr
            /\ DOMAIN state' = {"ShellyIP"}
            /\ UNCHANGED <<cfg, now, shelly, gcode>>
      ]_vars

\* a restarted process whose first cycle shuts the printer off, as did the
\* last cycle before the restart, which had used an address cached earlier
C20_Witness ==
    /\ Returned /\ cyc.prev = "ShutOff"
    /\ cyc.outcome = "ShutOff" /\ cyc.relay.called
    /\ cyc.before = <<>> /\ cyc.label # <<>>
    /\ cyc.dur >= cfg.StandbyDuration

----------------------------------------------------------------------------
(* Claims on the scheduler, under SpecSched *)

InProgress == cyc.kind = "running"

\* this step is the ticker firing
TickStep == now' # now

\* this step is main calling checkAndControl
BeginStep == cyc'.kind = "running" /\ cyc.kind # "running"

\* cycles do not overlap: a cycle begins only when none is in progress, that
\* is at start or after the previous one has returned; the first cycle begins
\* at start, before any tick
NoOverlap ==
    /\ BeginStep => cyc.kind \in {"start", "cycle"}
    /\ cyc.kind = "start" => (now = 0 /\ ~due /\ ~TickStep)
    /\ InProgress => (cyc'.kind \in {"running", "cycle"})

\* C15 as stated: one cycle at start and then one for every tick, for ever,
\* without overlap: no tick fires while an earlier tick still waits for its
\* cycle.
C15_OneCyclePerTick ==
    /\ [][NoOverlap /\ (TickStep => ~due)]_vars
    /\ (cyc.kind = "start") ~> InProgress
    /\ due ~> InProgress

\* C15 amended: one cycle at start and then one for every tick received, for
\* ever, without overlap: every later cycle takes the one tick that waits,
\* and a tick that fires while another waits is dropped.
C15_OneCyclePerTickReceived ==
    /\ [][/\ NoOverlap
          /\ (BeginStep /\ cyc.kind # "start") => (due /\ ~due')
          /\ TickStep => due'
          /\ (due /\ ~due') => BeginStep]_vars
    /\ (cyc.kind = "start") ~> InProgress
    /\ due ~> InProgress

\* a second tick fires while the first still waits for the cycle in progress
\* to return
C15_Witness == InProgress /\ due /\ now >= 2 * cfg.CheckInterval

----------------------------------------------------------------------------
(* Claims on the gateway and the boot-grace gate, under Spec *)

NoSamples == Envelope(<<>>)

\* C16: the instant query and the range query both return an error, and no
\* samples, when the answer is a transport failure, an HTTP status other than
\* 200, a body that does not decode, or an envelope whose status is not
\* "success"; the callers of the range query then return an error too.
C16_GatewayHardErrors ==
    \A k \in FaultKinds \ {"ok"} :
        /\ queryVM(HttpResponse(k, ShellyInstant(shelly, <<>>))) =
               [err |-> TRUE, result |-> NoSamples]
        /\ queryRange(HttpResponse(k, ShellyRange(shelly, 0, now))) =
               [err |-> TRUE, result |-> NoSamples]
        /\ wasPowerTurnedOnRecently(shelly, cfg.BootGracePeriod, now, k).err
        /\ getStandbyDuration(shelly, cfg.MinWatts, cfg.MaxWatts,
                              cfg.StandbyDuration, now, k).err

\* the series holds a reading below 5 W and a later reading above 10 W
LowThenHigh(w) ==
    \E i, j \in 1..Len(w) :
        /\ i < j
        /\ IsNumber(w[i].v) /\ ValueOf(w[i].v) < LowWatts
        /\ IsNumber(w[j].v) /\ ValueOf(w[j].v) > HighWatts

\* C17: wasPowerTurnedOnRecently returns true exactly when the power series of
\* the boot-grace window holds a low reading followed by a high reading,
\* whatever the length of the series; a cycle that gets the answer true ends as
\* SkipBootGrace with no relay command.
C17_BootGraceIffTransition ==
    /\ wasPowerTurnedOnRecently(shelly, cfg.BootGracePeriod, now, "ok") =
           [v |-> LowThenHigh(BootWindow), err |-> FALSE]
    /\ (IsCycle /\ Answered("boot")) =>
           ((cyc.outcome = "SkipBootGrace") <=> LowThenHigh(BootWindow))
    /\ (IsCycle /\ Answered("boot") /\ LowThenHigh(BootWindow)) => ~cyc.relay.called

\* the same with the series of one or two samples left out: holds
BootGraceIffTransitionOfThree ==
    Len(BootWindow) # 2 => C17_BootGraceIffTransition

----------------------------------------------------------------------------
(* Claims on the order of the checks, under Spec *)

\* the query did not succeed (or was never sent)
NotOK(q) == cyc.faults[q] # "ok"

\* the outcome and the number of queries of a cycle that runs the seven checks
\* in order and stops at the first that fails, a failed query failing its
\* check; transition, inBand are the boot-grace and band tests
FirstFailing(bootFails, bandFails, standbyFails) ==
    IF NotOK("watts") \/ shelly = <<>> THEN <<"SkipOffline", 1>>
    ELSE IF NotOK("fresh") \/ ~MetricsFresh THEN <<"SkipOffline", 2>>
    ELSE IF bootFails THEN <<"SkipBootGrace", 3>>
    ELSE IF NotOK("printing") \/ PrinterPrinting THEN <<"SkipPrinting", 4>>
    ELSE IF NotOK("recent") \/ MaxCodePrinting THEN <<"SkipRecentPrint", 5>>
    ELSE IF bandFails THEN <<"SkipOutOfBand", 5>>
    ELSE IF standbyFails THEN <<"SkipStillCounting", 6>>
    ELSE <<"ShutOff", 6>>

\* C19: the checks run in the order power query, freshness, boot grace,
\* printing, printed recently, watts in band, standby duration; the outcome is
\* the Skip of the first check that fails, the queries sent are those up to
\* that check and no more, and ShutOff is the outcome when none fails.
C19_FirstFailingCheckDecides ==
    IsCycle =>
        LET e == FirstFailing(NotOK("boot") \/ LowThenHigh(BootWindow),
                              ~InBand(Newest(shelly).v),
                              NotOK("standby") \/ WorldStandby < cfg.StandbyDuration)
        IN  /\ cyc.outcome = e[1]
            /\ cyc.queries = SubSeq(QueryOrder, 1, e[2])
            /\ cyc.relay.called => cyc.outcome = "ShutOff"

\* an answer with an envelope status other than "success" to a range query
StatusFault(q) == cyc.faults[q] = "status"

\* the same order with the three tests as the code makes them: a range query
\* answered with a status other than "success" is an empty series, the
\* boot-grace scan needs more than two samples, the band includes its bounds
OrderAsCoded ==
    IsCycle =>
        LET e == FirstFailing(
                    IF StatusFault("boot") THEN FALSE
                    ELSE NotOK("boot") \/ TransitionIn(BootWindow),
                    ~(cyc.watts >= cfg.MinWatts /\ cyc.watts <= cfg.MaxWatts),
                    IF StatusFault("standby") THEN 0 < cfg.StandbyDuration
                    ELSE NotOK("standby") \/ WorldStandby < cfg.StandbyDuration)
        IN  /\ cyc.outcome = e[1]
            /\ cyc.queries = SubSeq(QueryOrder, 1, e[2])
            /\ cyc.relay.called => cyc.outcome = "ShutOff"

----------------------------------------------------------------------------
(* Claims on progress, under SpecLive *)

AllInBand == \A i \in 1..Len(shelly) : InBand(shelly[i].v)

\* every query of the last cycle succeeded, the metrics are fresh, no power-on
\* transition lies in the boot-grace window, no printer is or was recently
\* printing, an address is cached and every power sample is inside the band
Calm ==
    /\ NoQueryFailed
    /\ shelly # <<>> /\ MetricsFresh
    /\ ~LowThenHigh(BootWindow)
    /\ ~PrinterPrinting /\ ~MaxCodePrinting
    /\ state.ShellyIP # <<>>
    /\ AllInBand

ShutOffCycle == IsCycle /\ cyc.outcome = "ShutOff" /\ cyc.relay.called

\* C18: if from some cycle on every query succeeds, the metrics stay fresh,
\* there is no power-on transition, no printer prints or printed recently, an
\* address is known and every power sample is strictly inside the band, then
\* cycles that reach ShutOff and issue the relay command keep occurring.
C18_CalmLeadsToShutOff == (<>[]Calm) => ([]<>ShutOffCycle)

\* the same for the configuration that checks every minute: holds
CalmLeadsToShutOffEveryMinute ==
    (<>[](Calm /\ cfg.CheckInterval = 1)) => ([]<>ShutOffCycle)

----------------------------------------------------------------------------
(* C21: every evaluation cycle ends with exactly one of the seven outcomes,
   whatever the queries and the relay answer (no result, fields missing,
   values malformed), and no outcome stops the process: after every cycle
   the next tick comes, and every tick is followed by a cycle. *)
C21_EveryCycleEndsInOneOutcome ==
    /\ [](Returned => cyc.outcome \in Outcomes)
    /\ [](due => ENABLED Cycle)
    /\ (Returned ~> due)
    /\ (due ~> Returned)

\* a cycle has returned on a response whose newest pair has no value field,
\* and another on a series no printer reports in
C21_Witness ==
    /\ Returned
    /\ shelly # <<>>
    /\ Len(Pair(Newest(shelly))) < 2
    /\ cyc.outcome = "SkipOffline"

C21_WitnessShutOff ==
    /\ Returned
    /\ cyc.outcome = "ShutOff"
    /\ cyc.relay.called /\ cyc.relay.err

----------------------------------------------------------------------------
(* C22: the duration getStandbyDuration returns never exceeds the window it
   queried, maxDuration + 5 minutes (the model's cycle takes no time), for
   every response to the range query, responses with a malformed timestamp
   field or a malformed value field included. *)
C22_DurationWithinWindow ==
    (Returned /\ Answered("standby")) =>
        cyc.dur <= cfg.StandbyDuration + StandbyBuffer

\* the same, on responses whose timestamps are all numbers
TimestampsAreNumbers ==
    \A i \in 1..Len(shelly) :
        LET pair == Pair(shelly[i]) IN Len(pair) >= 1 => AsFloat(pair[1]).ok

DurationWithinWindowOfNumbers ==
    (Returned /\ Answered("standby") /\ TimestampsAreNumbers) =>
        cyc.dur <= cfg.StandbyDuration + StandbyBuffer

----------------------------------------------------------------------------
\* the value field of the newest power sample is text, and not a number
MalformedReading ==
    /\ shelly # <<>>
    /\ LET pair == Pair(Newest(shelly))
       IN  /\ Len(pair) >= 2
           /\ AsString(pair[2]).ok
           /\ ~IsNumber(AsString(pair[2]).v)

(* C23: when the value field of the current power sample is malformed
   numeric text, getShellyBambuWatts reports 0 W and no error, and the cycle
   issues no relay turn-off command on that reading, for every band with
   minWatts >= 0, minWatts = 0 included. *)
C23_MalformedReadsZeroNoShutOff ==
    (Returned /\ Answered("watts") /\ MalformedReading) =>
        /\ Issued("fresh")
        /\ cyc.watts = 0
        /\ ~cyc.relay.called

\* the text of the newest power sample does not start with a digit
NoLeadingDigit ==
    LET text == AsString(Pair(Newest(shelly))[2]).v
    IN  text = <<>> \/ ~IsDigit(text[1])

\* malformed text without a leading digit reads as 0 W and no error; with
\* minWatts above 0 the cycle then stops at the band test
NoDigitsReadsZero ==
    (Returned /\ Answered("watts") /\ MalformedReading /\ NoLeadingDigit) =>
        /\ Issued("fresh")
        /\ cyc.watts = 0
        /\ cfg.MinWatts > 0 => ~Issued("standby") /\ ~cyc.relay.called

----------------------------------------------------------------------------
\* the process is started again: the tick of the first cycle waits, the
\* record of the last cycle of the old process is still there
RestartStep == ~due /\ due' /\ cyc'.kind = "cycle"

(* C24: the cached address is the label of the most recent successful power
   query that carried a non-empty address, and empty before the first one:
   a cycle whose power query succeeds with a non-empty label caches that
   label, a cycle whose power query fails or carries no label leaves the
   cache as it was, and a cache that is not empty is emptied by nothing but
   a restart of the process. *)
C24_CacheIsLatestLabel ==
    [][/\ CycleStep =>
           state'.ShellyIP = IF cyc'.label # <<>> THEN cyc'.label ELSE state.ShellyIP
       /\ (state.ShellyIP # <<>> /\ state'.ShellyIP = <<>>) => RestartStep]_vars

\* a cycle whose power query succeeded without a label has kept the address
\* cached before it
C24_Witness ==
    /\ Returned
    /\ Answered("watts") /\ Issued("fresh")
    /\ cyc.label = <<>>
    /\ cyc.before # <<>>
    /\ state.ShellyIP = cyc.before

\* a cycle whose power query failed has kept the address cached before it
C24_WitnessFailed ==
    /\ Returned
    /\ cyc.queries = <<"watts">> /\ cyc.err
    /\ cyc.before # <<>>
    /\ state.ShellyIP = cyc.before

\* a cycle has replaced the cached address by another one
C24_WitnessRelearned ==
    /\ Returned
    /\ cyc.before # <<>>
    /\ cyc.label # <<>> /\ cyc.label # cyc.before
    /\ state.ShellyIP = cyc.label

====
